---- MODULE Spec2Model ----
(***************************************************************************)
(* Model of the MKS DLC32 I2C mode/command link.                           *)
(*                                                                         *)
(*   master: Firmware/Grbl_Esp32/src/mks/MKS_I2C_Slave.cpp                 *)
(*           lines 1-218 are the throttled revision of the relay (the one  *)
(*           that matches the header with JSON_REPORT_INTERVAL/DURATION),  *)
(*           lines 219-379 the earlier revision that forwards every        *)
(*           message and still has the gcode branch.                       *)
(*   slave:  Firmware/Arduino_I2C_Slave/Arduino_I2C_Slave.ino              *)
(*           lines 162-491, the revision with the stepper.                 *)
(*                                                                         *)
(* Text is a sequence of one-character strings, so that prefix tests,      *)
(* strncmp, strncpy and the JSON reader work on the bytes themselves.      *)
(***************************************************************************)
EXTENDS Integers, Sequences, FiniteSets, TLC

(***************************************************************************)
(* Program constants                                                       *)
(***************************************************************************)
MODE_NONE == 0
MODE_SPINDLE == 1
MODE_LASER == 2
MODE_DRAWING == 3

I2C_POLL_INTERVAL == 100
JSON_REPORT_INTERVAL == 500
JSON_REPORT_DURATION == 5000

\* one FreeRTOS tick per millisecond on this target
portTICK_PERIOD_MS == 1
\* sizeof(i2c_buffer), sizeof(last_json_content), sizeof(gc_line)
BUF_SIZE == 256
\* const size_t maxPayloadSize
maxPayloadSize == 32
\* the byte count of Wire.requestFrom(0x08, 32)
REQUEST_SIZE == 32

(***************************************************************************)
(* Bounds of the model                                                     *)
(***************************************************************************)
\* iterations of the poll task that are explored
MaxTicks == 56
\* the channels deliver lines and payloads during the first iterations only
MaxInputTick == 12

(***************************************************************************)
(* Text                                                                    *)
(***************************************************************************)
Q == "\""
Min(a, b) == IF a < b THEN a ELSE b

\* the first n bytes of s (all of s when it is shorter)
Take(s, n) == SubSeq(s, 1, Min(Len(s), n))
\* &s[n]
Drop(s, n) == SubSeq(s, n + 1, Len(s))

\* strncpy(dst, src, n); dst[n] = '\0'
strncpy(src, n) == Take(src, n)
\* strncmp(a, b, n) == 0
strncmp0(a, b, n) == Take(a, n) = Take(b, n)
\* strcmp(a, b) == 0
strcmp0(a, b) == a = b

s_mode == <<"m", "o", "d", "e">>
s_gcode == <<"g", "c", "o", "d", "e">>
s_color == <<"c", "o", "l", "o", "r">>
s_spindle == <<"s", "p", "i", "n", "d", "l", "e">>
s_laser == <<"l", "a", "s", "e", "r">>
s_drawing == <<"d", "r", "a", "w", "i", "n", "g">>
s_none == <<"n", "o", "n", "e">>
s_null == <<"n", "u", "l", "l">>

(***************************************************************************)
(* JSON: serializeJson of a document with one string member, and           *)
(* deserializeJson for the grammar the inputs of this model use: an object *)
(* of "key":"string" or "key":null members, blanks allowed between tokens, *)
(* anything after the closing brace ignored, anything else an error.       *)
(***************************************************************************)
serializeJson(key, val, size) ==
    Take(<<"{", Q>> \o key \o <<Q, ":", Q>> \o val \o <<Q, "}">>, size - 1)

JsonError == [error |-> TRUE, doc |-> <<>>]
JsonOk(members) == [error |-> FALSE, doc |-> members]
JsonStr(s) == [null |-> FALSE, str |-> s]
JsonNull == [null |-> TRUE, str |-> <<>>]

RECURSIVE SkipWs(_, _)
SkipWs(s, i) == IF i <= Len(s) /\ s[i] = " " THEN SkipWs(s, i + 1) ELSE i

\* the index of the quote that closes a string whose text starts at i, 0 if none
RECURSIVE StrEnd(_, _)
StrEnd(s, i) ==
    IF i > Len(s) THEN 0 ELSE IF s[i] = Q THEN i ELSE StrEnd(s, i + 1)

RECURSIVE ParseMembers(_, _, _)
ParseMembers(s, i, acc) ==
    LET k0 == SkipWs(s, i)
        k1 == StrEnd(s, k0 + 1)
        key == SubSeq(s, k0 + 1, k1 - 1)
        c == SkipWs(s, k1 + 1)
        v0 == SkipWs(s, c + 1)
        v1 == StrEnd(s, v0 + 1)
        After(j, val) ==
            LET e == SkipWs(s, j)
                got == Append(acc, <<key, val>>)
            IN  IF e > Len(s) THEN JsonError
                ELSE IF s[e] = "}" THEN JsonOk(got)
                ELSE IF s[e] = "," THEN ParseMembers(s, e + 1, got)
                ELSE JsonError
    IN  IF k0 > Len(s) \/ s[k0] # Q THEN JsonError
        ELSE IF k1 = 0 THEN JsonError
        ELSE IF c > Len(s) \/ s[c] # ":" THEN JsonError
        ELSE IF v0 > Len(s) THEN JsonError
        ELSE IF s[v0] = Q
             THEN IF v1 = 0 THEN JsonError
                  ELSE After(v1 + 1, JsonStr(SubSeq(s, v0 + 1, v1 - 1)))
        ELSE IF v0 + 3 <= Len(s) /\ SubSeq(s, v0, v0 + 3) = s_null
             THEN After(v0 + 4, JsonNull)
        ELSE JsonError

deserializeJson(s) ==
    LET i == SkipWs(s, 1)
        j == SkipWs(s, i + 1)
    IN  IF i > Len(s) \/ s[i] # "{" THEN JsonError
        ELSE IF j <= Len(s) /\ s[j] = "}" THEN JsonOk(<<>>)
        ELSE ParseMembers(s, j, <<>>)

\* doc.containsKey(key)
containsKey(doc, key) == \E n \in 1..Len(doc) : doc[n][1] = key
\* doc[key], read as const char*: the first member of that name
member(doc, key) ==
    LET n == CHOOSE m \in 1..Len(doc) :
                 /\ doc[m][1] = key
                 /\ \A l \in 1..(m - 1) : doc[l][1] # key
    IN  doc[n][2]


(***************************************************************************)
(* State                                                                   *)
(***************************************************************************)
VARIABLES
    \* master, MKS_I2C_Slave.cpp lines 4-12
    mks_machine_mode,
    i2c_buffer,
    last_json_report_time,
    mode_change_time,
    throttled_reporting_active,
    last_json_content,
    \* master: the poll task's local and its position in the loop body
    current_time,
    pc,
    \* master: the millisecond clock, and what the last step wrote
    millis,
    console,
    executed,
    \* master: what send_json_to_arduino last returned and put on the bus
    sent,
    \* slave, Arduino_I2C_Slave.ino lines 194-239, and its output pins
    currentMode,
    jsonBuffer,
    receiveBuffer,
    newCommandReceived,
    modeChanged,
    currentPosition,
    ENA_PIN,
    DIR_PIN,
    \* slave: position in loop() and the locals of moveToColor
    spc,
    targetPosition,
    stepsToMove,
    stepIndex,
    \* slave: the levels checkModePins last read, what the last step printed
    pins,
    slaveSerial,
    \* history of the current moveToColor call
    moveName,
    moveFrom,
    pulses,
    \* history: whether receiveBuffer holds bytes processReceivedCommand has
    \* not read yet, and whether they came in during a move
    unread,
    \* history, read by the properties only
    ticks,
    emitLog,
    trig,
    prevJson,
    pre,
    parsed,
    repeated,
    \* history: the [JSON:...] lines written since the applied Mode last changed
    jsonLines,
    \* history: the encoded messages ingested and not yet handed to
    \* mks_i2c_process_json
    pending,
    \* history: what the local channel handed to mks_i2c_process_json in the
    \* current iteration of the poll task, if it did
    localJson,
    \* history: last_json_content holds a message that no [JSON:...] line has
    \* carried since it was stored
    unreported

masterVars == <<mks_machine_mode, i2c_buffer, last_json_report_time,
                mode_change_time, throttled_reporting_active,
                last_json_content, current_time, pc, millis, console,
                executed>>
historyVars == <<ticks, emitLog, trig, prevJson, localJson, pre, parsed,
                 repeated, jsonLines, pending, unreported>>
slaveVars == <<currentMode, jsonBuffer, receiveBuffer, newCommandReceived,
               modeChanged, currentPosition, ENA_PIN, DIR_PIN, spc,
               targetPosition, stepsToMove, stepIndex, pins, slaveSerial,
               moveName, moveFrom, pulses, unread>>
vars == <<masterVars, sent, historyVars, slaveVars>>

(***************************************************************************)
(* Report sink: the lines a step writes, each with its client              *)
(***************************************************************************)
Line(client, fmt, arg) == [client |-> client, fmt |-> fmt, arg |-> arg]

\* forward_json_to_console, and the same grbl_sendf in the throttle tick
forward_json_to_console(json) == Line("CLIENT_SERIAL", "[JSON:%s]", json)

\* get_machine_mode_string
get_machine_mode_string(mode) ==
    CASE mode = MODE_SPINDLE -> s_spindle
      [] mode = MODE_LASER -> s_laser
      [] mode = MODE_DRAWING -> s_drawing
      [] OTHER -> s_none

\* mutant: the mode is reported to the serial client only
report_machine_mode_serial_only(mode) ==
    Line("CLIENT_SERIAL", "[MODE:%s]", get_machine_mode_string(mode))

\* report_machine_mode
report_machine_mode(mode) ==
    Line("CLIENT_ALL", "[MODE:%s]", get_machine_mode_string(mode))

ParseErrorLine == Line("CLIENT_SERIAL", "JSON parse error: %s", <<>>)

(***************************************************************************)
(* Time. millis() and the three stamps are uint32_t. A value u is kept as  *)
(* the integer congruent to it modulo 2^32 that lies in -2^31 .. 2^31 - 1: *)
(* u itself below 2^31 and u - 2^32 from there on, so that the counter's   *)
(* wrap from 2^32 - 1 to 0 is the step from -1 to 0. The unsigned          *)
(* difference now - stamp is then the plain difference when that is not    *)
(* negative, and at least 2^31 otherwise; the code compares it with        *)
(* constants far below that, so every such value stands for the same.      *)
(***************************************************************************)
FarApart == 2147483647
Since(now, stamp) == IF now - stamp >= 0 THEN now - stamp ELSE FarApart

\* a < b as uint32_t values
ULess(a, b) == IF (a < 0) = (b < 0) THEN a < b ELSE a >= 0

(***************************************************************************)
(* mks_i2c_process_json, throttled revision. The result is the applied     *)
(* mode, the window's active flag and the lines written; the two time      *)
(* stamps and last_json_content are not touched by the function.           *)
(***************************************************************************)
\* lines 140-153: the strncmp chain; new_mode starts as MODE_NONE
ModeOfName(mode) ==
    IF strncmp0(mode, s_spindle, 7) THEN MODE_SPINDLE
    ELSE IF strncmp0(mode, s_laser, 5) THEN MODE_LASER
    ELSE IF strncmp0(mode, s_drawing, 7) THEN MODE_DRAWING
    ELSE IF strncmp0(mode, s_none, 4) THEN MODE_NONE
    ELSE MODE_NONE

Unchanged(machine_mode, active) ==
    [mode |-> machine_mode, active |-> active, out |-> <<>>, exec |-> <<>>]

\* mutant: a mode change is applied and reported, the window is left open
apply_mode_field_keeps_window(doc, machine_mode, active) ==
    IF containsKey(doc, s_mode) /\ ~member(doc, s_mode).null
    THEN LET previous_mode == machine_mode
             new_mode == ModeOfName(member(doc, s_mode).str)
         IN  IF previous_mode # new_mode
             THEN [mode |-> new_mode, active |-> active,
                   out |-> <<report_machine_mode(new_mode)>>,
                   exec |-> <<>>]
             ELSE Unchanged(machine_mode, active)
    ELSE Unchanged(machine_mode, active)

\* lines 135-165: the mode field of a parsed document
apply_mode_field(doc, machine_mode, active) ==
    IF containsKey(doc, s_mode) /\ ~member(doc, s_mode).null
    THEN LET previous_mode == machine_mode
             new_mode == ModeOfName(member(doc, s_mode).str)
         IN  IF previous_mode # new_mode
             THEN [mode |-> new_mode, active |-> FALSE,
                   out |-> <<report_machine_mode(new_mode)>>,
                   exec |-> <<>>]
             ELSE Unchanged(machine_mode, active)
    ELSE Unchanged(machine_mode, active)

\* mutant: the error branch lacks its return and the mode handling runs on
\* the empty document's default, MODE_NONE
mks_i2c_process_json_no_return(json, machine_mode, active) ==
    LET parse == deserializeJson(json)
    IN  IF parse.error
        THEN IF machine_mode # MODE_NONE
             THEN [mode |-> MODE_NONE, active |-> FALSE,
                   out |-> <<ParseErrorLine, report_machine_mode(MODE_NONE)>>,
                   exec |-> <<>>]
             ELSE [Unchanged(machine_mode, active) EXCEPT
                     !.out = <<ParseErrorLine>>]
        ELSE apply_mode_field(parse.doc, machine_mode, active)

\* mutant: the mode is reported, and the window closed, on every mode
\* message, changed or not
mks_i2c_process_json_always_report(json, machine_mode, active) ==
    LET parse == deserializeJson(json)
    IN  IF parse.error
        THEN [Unchanged(machine_mode, active) EXCEPT
                !.out = <<ParseErrorLine>>]
        ELSE IF containsKey(parse.doc, s_mode)
                /\ ~member(parse.doc, s_mode).null
        THEN LET new_mode == ModeOfName(member(parse.doc, s_mode).str)
             IN  [mode |-> new_mode, active |-> FALSE,
                  out |-> <<report_machine_mode(new_mode)>>, exec |-> <<>>]
        ELSE Unchanged(machine_mode, active)

\* lines 125-168
mks_i2c_process_json(json, machine_mode, active) ==
    LET parse == deserializeJson(json)
    IN  IF parse.error
        THEN [Unchanged(machine_mode, active) EXCEPT
                !.out = <<ParseErrorLine>>]
        ELSE apply_mode_field(parse.doc, machine_mode, active)

(***************************************************************************)
(* The poll task, throttled revision, one loop body in five steps:         *)
(*   tick -> serial [-> serial_json] -> wire [-> wire_json] -> delay       *)
(***************************************************************************)
Window == [active |-> throttled_reporting_active,
           mode_change_time |-> mode_change_time,
           last_json_report_time |-> last_json_report_time,
           last_json_content |-> last_json_content]

\* mutant: the window's age is measured from the last report
throttle_tick_from_last_report(w, now) ==
    IF w.active
    THEN IF Since(now, w.last_json_report_time) <= JSON_REPORT_DURATION
         THEN IF Since(now, w.last_json_report_time) >= JSON_REPORT_INTERVAL
              THEN [w |-> [w EXCEPT !.last_json_report_time = now],
                    out |-> <<forward_json_to_console(w.last_json_content)>>]
              ELSE [w |-> w, out |-> <<>>]
         ELSE [w |-> [w EXCEPT !.active = FALSE], out |-> <<>>]
    ELSE [w |-> w, out |-> <<>>]

\* mutant: a repeat is due as soon as any time has passed
throttle_tick_every_iteration(w, now) ==
    IF w.active
    THEN IF Since(now, w.mode_change_time) <= JSON_REPORT_DURATION
         THEN IF Since(now, w.last_json_report_time) >= I2C_POLL_INTERVAL
              THEN [w |-> [w EXCEPT !.last_json_report_time = now],
                    out |-> <<forward_json_to_console(w.last_json_content)>>]
              ELSE [w |-> w, out |-> <<>>]
         ELSE [w |-> [w EXCEPT !.active = FALSE], out |-> <<>>]
    ELSE [w |-> w, out |-> <<>>]

\* lines 43-52
throttle_tick(w, now) ==
    IF w.active
    THEN IF Since(now, w.mode_change_time) <= JSON_REPORT_DURATION
         THEN IF Since(now, w.last_json_report_time) >= JSON_REPORT_INTERVAL
              THEN [w |-> [w EXCEPT !.last_json_report_time = now],
                    out |-> <<forward_json_to_console(w.last_json_content)>>]
              ELSE [w |-> w, out |-> <<>>]
         ELSE [w |-> [w EXCEPT !.active = FALSE], out |-> <<>>]
    ELSE [w |-> w, out |-> <<>>]

\* mutant: the stamps are set outside the if, on every ingest
store_and_start_restamps(w, json, now) ==
    LET stored == [w EXCEPT
                     !.last_json_content = strncpy(json, BUF_SIZE - 1),
                     !.mode_change_time = now,
                     !.last_json_report_time = now,
                     !.active = TRUE]
    IN  [w |-> stored,
         out |-> IF ~w.active THEN <<forward_json_to_console(json)>>
                 ELSE <<>>]

\* mutant: the window is opened without the immediate report
store_and_start_no_first_report(w, json, now) ==
    LET stored == [w EXCEPT
                     !.last_json_content = strncpy(json, BUF_SIZE - 1)]
    IN  IF ~w.active
        THEN [w |-> [stored EXCEPT !.mode_change_time = now,
                                   !.last_json_report_time = now,
                                   !.active = TRUE],
              out |-> <<>>]
        ELSE [w |-> stored, out |-> <<>>]

\* mutant: a payload that finds a window open is not stored
store_and_start_keeps_first(w, json, now) ==
    IF ~w.active
    THEN [w |-> [w EXCEPT !.last_json_content = strncpy(json, BUF_SIZE - 1),
                          !.mode_change_time = now,
                          !.last_json_report_time = now,
                          !.active = TRUE],
          out |-> <<forward_json_to_console(json)>>]
    ELSE [w |-> w, out |-> <<>>]

\* mutant: the payload is reported at every ingest, window or not
store_and_start_always_reports(w, json, now) ==
    LET stored == [w EXCEPT
                     !.last_json_content = strncpy(json, BUF_SIZE - 1)]
    IN  IF ~w.active
        THEN [w |-> [stored EXCEPT !.mode_change_time = now,
                                   !.last_json_report_time = now,
                                   !.active = TRUE],
              out |-> <<forward_json_to_console(json)>>]
        ELSE [w |-> stored, out |-> <<forward_json_to_console(json)>>]

\* lines 60-71 and 91-102: store the payload, report it once and open a
\* window unless one is open
store_and_start(w, json, now) ==
    LET stored == [w EXCEPT
                     !.last_json_content = strncpy(json, BUF_SIZE - 1)]
    IN  IF ~w.active
        THEN [w |-> [stored EXCEPT !.mode_change_time = now,
                                   !.last_json_report_time = now,
                                   !.active = TRUE],
              out |-> <<forward_json_to_console(json)>>]
        ELSE [w |-> stored, out |-> <<>>]

\* line 59
is_json_line(buf) ==
    Len(buf) > 2 /\ buf[1] = "J" /\ buf[2] = ":" /\ Len(buf) > 3
\* lines 88-90
is_json_payload(buf) == Len(buf) > 0 /\ buf[1] = "{"

SetWindow(w) ==
    /\ throttled_reporting_active' = w.active
    /\ mode_change_time' = w.mode_change_time
    /\ last_json_report_time' = w.last_json_report_time
    /\ last_json_content' = w.last_json_content

\* what the properties compare before and after an ingest
RelayState == [mode |-> mks_machine_mode, window |-> Window]
NoPre == [mode |-> MODE_NONE,
          window |-> [active |-> FALSE, mode_change_time |-> 0,
                      last_json_report_time |-> 0,
                      last_json_content |-> <<>>]]

\* ghost clock of the emissions: milliseconds since the task started
Elapsed == ticks * I2C_POLL_INTERVAL


(***************************************************************************)
(* send_json_to_arduino lines 171-201. json is a pointer: null or text.    *)
(* bytesWritten is what Wire.write returns, result what                    *)
(* Wire.endTransmission returns; writes are the bus transmissions made.    *)
(***************************************************************************)
CStr(s) == [null |-> FALSE, str |-> s]
NullPtr == [null |-> TRUE, str |-> <<>>]

\* mutant: only the status of endTransmission is looked at
send_json_to_arduino_status_only(json, bytesWritten, result) ==
    IF json.null \/ Len(json.str) = 0 \/ Len(json.str) > maxPayloadSize
    THEN [ret |-> FALSE, writes |-> <<>>, out |-> <<>>]
    ELSE [ret |-> result = 0, writes |-> <<Take(json.str, bytesWritten)>>,
          out |-> <<>>]

send_json_to_arduino(json, bytesWritten, result) ==
    IF json.null \/ Len(json.str) = 0 \/ Len(json.str) > maxPayloadSize
    THEN [ret |-> FALSE, writes |-> <<>>,
          out |-> <<Line("CLIENT_SERIAL",
                         "Invalid JSON payload or size exceeded", <<>>)>>]
    ELSE IF result = 0 /\ bytesWritten = Len(json.str)
    THEN [ret |-> TRUE, writes |-> <<Take(json.str, bytesWritten)>>,
          out |-> <<Line("CLIENT_SERIAL", "Sent to Arduino: %s", json.str),
                    Line("CLIENT_SERIAL", "[JSON_SENT:%s]", json.str)>>]
    ELSE [ret |-> FALSE, writes |-> <<Take(json.str, bytesWritten)>>,
          out |-> <<Line("CLIENT_SERIAL",
                         "Failed to send JSON to Arduino, error: %d", <<>>)>>]

NotSent == [called |-> FALSE, json |-> NullPtr, bytesWritten |-> 0,
            result |-> 0, ret |-> FALSE, writes |-> <<>>]

(***************************************************************************)
(* Slave: mode sensor                                                      *)
(***************************************************************************)
Levels == {"LOW", "HIGH"}
PinLevels == [spindle : Levels, laser : Levels, drawing : Levels]

\* mutant: the laser input is looked at first
sample_laser_first(p) ==
    IF p.laser = "HIGH" THEN MODE_LASER
    ELSE IF p.spindle = "HIGH" THEN MODE_SPINDLE
    ELSE IF p.drawing = "HIGH" THEN MODE_DRAWING
    ELSE MODE_NONE

\* checkModePins lines 446-455: the mode the three inputs select
sample(p) ==
    IF p.spindle = "HIGH" THEN MODE_SPINDLE
    ELSE IF p.laser = "HIGH" THEN MODE_LASER
    ELSE IF p.drawing = "HIGH" THEN MODE_DRAWING
    ELSE MODE_NONE

\* getModeString
getModeString(mode) ==
    CASE mode = MODE_SPINDLE -> s_spindle
      [] mode = MODE_LASER -> s_laser
      [] mode = MODE_DRAWING -> s_drawing
      [] OTHER -> s_none

\* sizeof(jsonBuffer), sizeof(receiveBuffer)
SLAVE_BUF_SIZE == 32

\* updateJsonBuffer
updateJsonBuffer(mode) ==
    serializeJson(s_mode, getModeString(mode), SLAVE_BUF_SIZE)

(***************************************************************************)
(* Slave: position controller                                              *)
(***************************************************************************)
s_cyan == <<"c", "y", "a", "n">>
s_magenta == <<"m", "a", "g", "e", "n", "t", "a">>
s_yellow == <<"y", "e", "l", "l", "o", "w">>
s_black == <<"b", "l", "a", "c", "k">>
s_Cyan == <<"C", "y", "a", "n">>

NUM_COLORS == 4
colorPositions ==
    <<[name |-> s_cyan, position |-> 0],
      [name |-> s_magenta, position |-> 200],
      [name |-> s_yellow, position |-> 400],
      [name |-> s_black, position |-> 600]>>

\* moveToColor lines 378-385: the first entry whose name is the color, or -1
RECURSIVE find_from(_, _)
find_from(color, i) ==
    IF i > NUM_COLORS THEN -1
    ELSE IF strcmp0(color, colorPositions[i].name)
         THEN colorPositions[i].position
         ELSE find_from(color, i + 1)

\* mutant: targetPosition starts as 0, not -1
find_target_from_zero(color) ==
    IF find_from(color, 1) = -1 THEN 0 ELSE find_from(color, 1)

find_target(color) == find_from(color, 1)

\* mutant: the loop runs once more
step_loop_runs_inclusive(i, steps) == i <= steps

\* line 422: the loop condition of the pulse loop
step_loop_runs(i, steps) == i < steps

\* mutant: the two levels of the direction output are exchanged
direction_reversed(steps) == IF steps > 0 THEN "LOW" ELSE "HIGH"

\* lines 411-416: the level of the direction output
direction(steps) == IF steps > 0 THEN "HIGH" ELSE "LOW"

Abs(x) == IF x < 0 THEN -x ELSE x

\* receiveEvent lines 327-338: what ends up in receiveBuffer
receive_into_buffer(bytes) == Take(bytes, SLAVE_BUF_SIZE - 1)

\* after setup()
SlaveInit ==
    /\ currentMode = MODE_NONE
    /\ jsonBuffer = updateJsonBuffer(MODE_NONE)
    /\ receiveBuffer = <<>>
    /\ newCommandReceived = FALSE
    /\ modeChanged = FALSE
    /\ currentPosition = 0
    /\ ENA_PIN = "HIGH"
    /\ DIR_PIN = "LOW"
    /\ spc = "check"
    /\ targetPosition = -1
    /\ stepsToMove = 0
    /\ stepIndex = 0
    /\ pins = [spindle |-> "LOW", laser |-> "LOW", drawing |-> "LOW"]
    /\ slaveSerial = <<>>
    /\ moveName = <<>>
    /\ moveFrom = 0
    /\ pulses = 0
    /\ unread = "none"

(***************************************************************************)
(* Inputs: what the local channel and the bus deliver in one iteration.    *)
(* <<>> is "nothing available".                                            *)
(***************************************************************************)
J(json) == <<"J", ":">> \o json
ModeMsg(name) == serializeJson(s_mode, name, BUF_SIZE)
s_purple == <<"p", "u", "r", "p", "l", "e">>
s_G0 == <<"G", "0">>
\* {"mode": }
MalformedMsg == <<"{", Q>> \o s_mode \o <<Q, ":", " ", "}">>
\* {"mode":"las   (a payload cut short)
CutMsg == <<"{", Q>> \o s_mode \o <<Q, ":", Q, "l", "a", "s">>
GcodeMsg(text) == serializeJson(s_gcode, text, BUF_SIZE)

SerialLines ==
    { <<>>,
      <<"?">>,
      J(ModeMsg(s_laser)),
      J(ModeMsg(s_none)),
      J(ModeMsg(s_purple)),
      J(MalformedMsg),
      J(GcodeMsg(s_G0)) }

WireData ==
    { <<>>,
      <<"?", "?">>,
      ModeMsg(s_spindle),
      ModeMsg(s_laser),
      ModeMsg(s_drawing),
      CutMsg }

ColorMsg(name) == serializeJson(s_color, name, BUF_SIZE)
\* {"color":"bla   (a command cut short)
CutColorMsg == <<"{", Q>> \o s_color \o <<Q, ":", Q, "b", "l", "a">>

\* what the master may write to the slave
BusCommands ==
    { ColorMsg(s_cyan), ColorMsg(s_magenta), ColorMsg(s_yellow),
      ColorMsg(s_black), ColorMsg(s_purple), ColorMsg(s_Cyan),
      CutColorMsg, ModeMsg(s_laser) }

\* a color command of exactly n bytes
Pad(n) == [i \in 1..n |-> "x"]
ColorMsgOfSize(n) == ColorMsg(Pad(n - 12))

\* what callers hand to send_json_to_arduino
SendPayloads ==
    { NullPtr, CStr(<<>>), CStr(<<"{">>), CStr(ColorMsg(s_magenta)),
      CStr(ColorMsgOfSize(maxPayloadSize)),
      CStr(ColorMsgOfSize(maxPayloadSize + 1)) }
\* Wire.endTransmission: 0 success, 2 address NACK, 5 timeout (1, 3 and 4
\* are further failures the code treats the same way)
WireResults == {0, 2, 5}

\* Serial.readBytesUntil('\n', i2c_buffer, sizeof(i2c_buffer) - 2), and the
\* Wire.read loop with the same limit
read_into_buffer(data) == Take(data, BUF_SIZE - 2)

InputsOpen == ticks < MaxInputTick

(***************************************************************************)
(* Init: mks_i2c_slave_init has run and the task enters its loop           *)
(***************************************************************************)
\* localJson when the local channel has handed nothing over in this iteration
NoLocal == <<"no local message">>

InitClock(start, boot) ==
    /\ mks_machine_mode = MODE_NONE
    /\ i2c_buffer = <<>>
    /\ last_json_report_time = 0
    /\ mode_change_time = 0
    /\ throttled_reporting_active = FALSE
    /\ last_json_content = <<>>
    /\ current_time = boot
    /\ pc = start
    /\ millis = boot
    /\ console = <<>>
    /\ executed = <<>>
    /\ sent = NotSent
    /\ SlaveInit
    /\ ticks = 0
    /\ emitLog = <<>>
    /\ trig = "none"
    /\ prevJson = <<>>
    /\ localJson = NoLocal
    /\ pre = NoPre
    /\ parsed = "idle"
    /\ repeated = FALSE
    /\ jsonLines = 0
    /\ pending = 0
    /\ unreported = FALSE

InitAt(start) == InitClock(start, 0)

Init == InitAt("tick")

(***************************************************************************)
(* Steps of the poll task                                                  *)
(***************************************************************************)
\* lines 41-52
ThrottleTick ==
    /\ pc = "tick"
    /\ LET r == throttle_tick(Window, millis)
       IN  /\ SetWindow(r.w)
           /\ console' = r.out
           /\ emitLog' = IF r.out # <<>> THEN Append(emitLog, Elapsed)
                         ELSE emitLog
           /\ jsonLines' = jsonLines + Len(r.out)
           /\ unreported' = (unreported /\ r.out = <<>>)
    /\ current_time' = millis
    /\ pc' = "serial"
    /\ pre' = NoPre
    /\ parsed' = "idle"
    /\ repeated' = FALSE
    /\ localJson' = NoLocal
    /\ UNCHANGED <<mks_machine_mode, i2c_buffer, millis, executed, sent, slaveVars,
                   ticks, trig, prevJson, pending>>

\* mutant: the call of mks_i2c_process_json sits inside the if that opens
\* the window
Ingest_processes_when_idle(json, next) ==
    LET r == store_and_start(Window, json, current_time)
    IN  /\ SetWindow(r.w)
        /\ console' = r.out
        /\ emitLog' = IF r.out # <<>> THEN <<Elapsed>> ELSE emitLog
        /\ jsonLines' = jsonLines + Len(r.out)
        /\ trig' = IF r.out # <<>> THEN "clean" ELSE "dirty"
        /\ pre' = RelayState
        /\ pending' = pending + 1
        /\ unreported' = (r.out = <<>>)
        /\ pc' = IF ~throttled_reporting_active THEN next
                 ELSE IF next = "serial_json" THEN "wire" ELSE "delay"

\* the part of an ingest that both channels share: lines 60-71, 91-102
Ingest(json, next) ==
    LET r == store_and_start(Window, json, current_time)
    IN  /\ SetWindow(r.w)
        /\ console' = r.out
        /\ emitLog' = IF r.out # <<>> THEN <<Elapsed>> ELSE emitLog
        /\ jsonLines' = jsonLines + Len(r.out)
        /\ trig' = IF r.out # <<>> THEN "clean" ELSE "dirty"
        /\ pre' = RelayState
        /\ pending' = pending + 1
        /\ unreported' = (r.out = <<>>)
        /\ pc' = next

Skip(next) ==
    /\ pc' = next
    /\ console' = <<>>
    /\ pre' = NoPre
    /\ UNCHANGED <<last_json_report_time, mode_change_time,
                   throttled_reporting_active, last_json_content, emitLog,
                   trig, jsonLines, pending, unreported>>

\* lines 53-77
LocalIngestOf(line) ==
    /\ pc = "serial"
    /\ LET buf == read_into_buffer(line)
       IN  /\ i2c_buffer' = IF Len(buf) > 0 THEN buf ELSE i2c_buffer
           /\ IF is_json_line(buf)
              THEN Ingest(Drop(buf, 2), "serial_json")
              ELSE Skip("wire")
    /\ parsed' = "idle"
    /\ repeated' = FALSE
    /\ UNCHANGED <<mks_machine_mode, current_time, millis, executed, sent, slaveVars,
                   ticks, prevJson, localJson>>

LocalIngest ==
    \E line \in SerialLines :
        /\ line # <<>> => InputsOpen
        /\ LocalIngestOf(line)

\* lines 79-108
BusIngestOf(data) ==
    /\ pc = "wire"
    /\ LET buf == read_into_buffer(Take(data, REQUEST_SIZE))
       IN  /\ i2c_buffer' = IF Len(buf) > 0 THEN buf ELSE i2c_buffer
           /\ IF is_json_payload(buf)
              THEN Ingest(buf, "wire_json")
              ELSE Skip("delay")
    /\ parsed' = "idle"
    /\ repeated' = FALSE
    /\ UNCHANGED <<mks_machine_mode, current_time, millis, executed, sent, slaveVars,
                   ticks, prevJson, localJson>>

BusIngest ==
    \E data \in WireData :
        /\ data # <<>> => InputsOpen
        /\ BusIngestOf(data)

\* the argument of the pending mks_i2c_process_json call: lines 74, 105
JsonArg == IF pc = "serial_json" THEN Drop(i2c_buffer, 2) ELSE i2c_buffer

\* mutant: the bus payload is not applied in an iteration in which the local
\* channel has applied one
ProcessJson_first_write_wins ==
    /\ pc \in {"serial_json", "wire_json"}
    /\ LET r == IF pc = "wire_json" /\ localJson # NoLocal
                THEN Unchanged(mks_machine_mode, throttled_reporting_active)
                ELSE mks_i2c_process_json(JsonArg, mks_machine_mode,
                                          throttled_reporting_active)
       IN  /\ mks_machine_mode' = r.mode
           /\ throttled_reporting_active' = r.active
           /\ console' = r.out
           /\ executed' = r.exec
           /\ trig' = IF r.mode # mks_machine_mode THEN "dirty" ELSE trig
           /\ jsonLines' = IF r.mode # mks_machine_mode THEN 0 ELSE jsonLines
           /\ parsed' = IF deserializeJson(JsonArg).error THEN "error"
                        ELSE "ok"
    /\ pending' = pending - 1
    /\ unreported' = unreported
    /\ prevJson' = JsonArg
    /\ localJson' = IF pc = "serial_json" THEN JsonArg ELSE localJson
    /\ repeated' = (JsonArg = prevJson)
    /\ pc' = IF pc = "serial_json" THEN "wire" ELSE "delay"
    /\ UNCHANGED <<i2c_buffer, last_json_report_time, mode_change_time,
                   last_json_content, current_time, millis, sent, slaveVars, ticks,
                   emitLog, pre>>

\* lines 74 and 105 with lines 125-168
ProcessJson ==
    /\ pc \in {"serial_json", "wire_json"}
    /\ LET r == mks_i2c_process_json(JsonArg, mks_machine_mode,
                                     throttled_reporting_active)
       IN  /\ mks_machine_mode' = r.mode
           /\ throttled_reporting_active' = r.active
           /\ console' = r.out
           /\ executed' = r.exec
           /\ trig' = IF r.mode # mks_machine_mode THEN "dirty" ELSE trig
           /\ jsonLines' = IF r.mode # mks_machine_mode THEN 0 ELSE jsonLines
           /\ parsed' = IF deserializeJson(JsonArg).error THEN "error"
                        ELSE "ok"
    /\ pending' = pending - 1
    /\ unreported' = unreported
    /\ prevJson' = JsonArg
    /\ localJson' = IF pc = "serial_json" THEN JsonArg ELSE localJson
    /\ repeated' = (JsonArg = prevJson)
    /\ pc' = IF pc = "serial_json" THEN "wire" ELSE "delay"
    /\ UNCHANGED <<i2c_buffer, last_json_report_time, mode_change_time,
                   last_json_content, current_time, millis, sent, slaveVars, ticks,
                   emitLog, pre>>

\* lines 112-115
task_delay ==
    LET minDelay == 10 \div portTICK_PERIOD_MS
        poll == I2C_POLL_INTERVAL \div portTICK_PERIOD_MS
    IN  IF poll > minDelay THEN poll ELSE minDelay

Delay ==
    /\ pc = "delay"
    /\ ticks < MaxTicks
    /\ millis' = millis + task_delay * portTICK_PERIOD_MS
    /\ ticks' = ticks + 1
    /\ pc' = "tick"
    /\ console' = <<>>
    /\ pre' = NoPre
    /\ parsed' = "idle"
    /\ repeated' = FALSE
    /\ UNCHANGED <<mks_machine_mode, i2c_buffer, last_json_report_time,
                   mode_change_time, throttled_reporting_active,
                   last_json_content, current_time, executed, sent, slaveVars, emitLog,
                   trig, prevJson, localJson, jsonLines, pending, unreported>>

(***************************************************************************)
(* Slave: loop() in steps, and the receive interrupt.                      *)
(*   check -> update -> command [-> enable -> dir -> step* -> disable]     *)
(*         [-> clear] -> sleep -> check                                    *)
(* The interrupt handler runs between any two steps.                       *)
(***************************************************************************)
SlaveFrame == UNCHANGED <<masterVars, sent, historyVars>>

\* loop line 289, checkModePins lines 445-465
CheckModePinsOf(p) ==
    /\ spc = "check"
    /\ pins' = p
    /\ LET newMode == sample(p)
       IN  IF newMode # currentMode
           THEN currentMode' = newMode /\ modeChanged' = TRUE
           ELSE UNCHANGED <<currentMode, modeChanged>>
    /\ spc' = "update"
    /\ slaveSerial' = <<>>
    /\ UNCHANGED <<jsonBuffer, receiveBuffer, unread, newCommandReceived,
                   currentPosition, ENA_PIN, DIR_PIN, targetPosition,
                   stepsToMove, stepIndex, moveName, moveFrom, pulses>>
    /\ SlaveFrame

CheckModePins == \E p \in PinLevels : CheckModePinsOf(p)

\* mutant: loop() clears the flag and leaves the buffer as it was
UpdateJson_flag_only ==
    /\ spc = "update"
    /\ modeChanged' = FALSE
    /\ slaveSerial' = IF modeChanged THEN <<"Mode changed to: ">> ELSE <<>>
    /\ spc' = "command"
    /\ UNCHANGED <<currentMode, jsonBuffer, receiveBuffer, unread,
                   newCommandReceived, currentPosition, ENA_PIN, DIR_PIN,
                   targetPosition, stepsToMove, stepIndex, pins, moveName,
                   moveFrom, pulses>>
    /\ SlaveFrame

\* mutant: the message is encoded again in every iteration
UpdateJson_every_iteration ==
    /\ spc = "update"
    /\ jsonBuffer' = updateJsonBuffer(currentMode)
    /\ modeChanged' = FALSE
    /\ slaveSerial' = <<"Mode changed to: ">>
    /\ spc' = "command"
    /\ UNCHANGED <<currentMode, receiveBuffer, unread, newCommandReceived,
                   currentPosition, ENA_PIN, DIR_PIN, targetPosition,
                   stepsToMove, stepIndex, pins, moveName, moveFrom, pulses>>
    /\ SlaveFrame

\* loop lines 291-303
UpdateJson ==
    /\ spc = "update"
    /\ IF modeChanged
       THEN /\ jsonBuffer' = updateJsonBuffer(currentMode)
            /\ modeChanged' = FALSE
            /\ slaveSerial' = <<"Mode changed to: ">>
       ELSE /\ UNCHANGED <<jsonBuffer, modeChanged>>
            /\ slaveSerial' = <<>>
    /\ spc' = "command"
    /\ UNCHANGED <<currentMode, receiveBuffer, unread, newCommandReceived,
                   currentPosition, ENA_PIN, DIR_PIN, targetPosition,
                   stepsToMove, stepIndex, pins, moveName, moveFrom, pulses>>
    /\ SlaveFrame

\* moveToColor lines 376-406 and 439-441: up to the decision to move
MoveStart(color) ==
    LET target == find_target(color)
        steps == target - currentPosition
    IN  /\ moveName' = color
        /\ moveFrom' = currentPosition
        /\ pulses' = 0
        /\ IF target = -1
           THEN /\ slaveSerial' = <<"Color command received: ",
                                    "Unknown color: ">>
                /\ spc' = "clear"
                /\ UNCHANGED <<targetPosition, stepsToMove>>
           ELSE /\ targetPosition' = target
                /\ stepsToMove' = steps
                /\ IF steps # 0
                   THEN /\ slaveSerial' = <<"Color command received: ",
                                            "Moving from position ">>
                        /\ spc' = "enable"
                   ELSE /\ slaveSerial' =
                               <<"Color command received: ",
                                 "Already at the requested color position">>
                        /\ spc' = "clear"

\* loop line 306, processReceivedCommand lines 353-373
Command ==
    /\ spc = "command"
    /\ IF newCommandReceived
       THEN LET parse == deserializeJson(receiveBuffer)
            IN  IF parse.error
                THEN /\ slaveSerial' = <<"JSON parsing error: ">>
                     /\ spc' = "clear"
                     /\ UNCHANGED <<targetPosition, stepsToMove, moveName,
                                    moveFrom, pulses>>
                ELSE IF containsKey(parse.doc, s_color)
                        /\ ~member(parse.doc, s_color).null
                THEN MoveStart(member(parse.doc, s_color).str)
                ELSE /\ slaveSerial' = <<>>
                     /\ spc' = "clear"
                     /\ UNCHANGED <<targetPosition, stepsToMove, moveName,
                                    moveFrom, pulses>>
       ELSE /\ slaveSerial' = <<>>
            /\ spc' = "sleep"
            /\ UNCHANGED <<targetPosition, stepsToMove, moveName, moveFrom,
                           pulses>>
    /\ unread' = IF newCommandReceived THEN "none" ELSE unread
    /\ UNCHANGED <<currentMode, jsonBuffer, receiveBuffer,
                   newCommandReceived, modeChanged, currentPosition,
                   ENA_PIN, DIR_PIN, stepIndex, pins>>
    /\ SlaveFrame

\* moveToColor lines 407-408
EnableDriver ==
    /\ spc = "enable"
    /\ ENA_PIN' = "LOW"
    /\ spc' = "dir"
    /\ slaveSerial' = <<>>
    /\ UNCHANGED <<currentMode, jsonBuffer, receiveBuffer, unread,
                   newCommandReceived, modeChanged, currentPosition,
                   DIR_PIN, targetPosition, stepsToMove, stepIndex, pins,
                   moveName, moveFrom, pulses>>
    /\ SlaveFrame

\* moveToColor lines 410-416
SetDirection ==
    /\ spc = "dir"
    /\ DIR_PIN' = direction(stepsToMove)
    /\ stepsToMove' = Abs(stepsToMove)
    /\ stepIndex' = 0
    /\ spc' = "step"
    /\ slaveSerial' = <<>>
    /\ UNCHANGED <<currentMode, jsonBuffer, receiveBuffer, unread,
                   newCommandReceived, modeChanged, currentPosition,
                   ENA_PIN, targetPosition, pins, moveName, moveFrom,
                   pulses>>
    /\ SlaveFrame

\* mutant: the position is counted along with every pulse
StepPulse_counts_position ==
    /\ spc = "step"
    /\ step_loop_runs(stepIndex, stepsToMove)
    /\ pulses' = pulses + 1
    /\ stepIndex' = stepIndex + 1
    /\ currentPosition' = currentPosition
                          + (IF DIR_PIN = "HIGH" THEN 1 ELSE -1)
    /\ slaveSerial' = <<>>
    /\ UNCHANGED <<currentMode, jsonBuffer, receiveBuffer, unread,
                   newCommandReceived, modeChanged, ENA_PIN, DIR_PIN, spc,
                   targetPosition, stepsToMove, pins, moveName, moveFrom>>
    /\ SlaveFrame

\* moveToColor lines 422-427: one pass of the loop, one pulse on STEP_PIN
StepPulse ==
    /\ spc = "step"
    /\ step_loop_runs(stepIndex, stepsToMove)
    /\ pulses' = pulses + 1
    /\ stepIndex' = stepIndex + 1
    /\ slaveSerial' = <<>>
    /\ UNCHANGED <<currentMode, jsonBuffer, receiveBuffer, unread,
                   newCommandReceived, modeChanged, currentPosition,
                   ENA_PIN, DIR_PIN, spc, targetPosition, stepsToMove, pins,
                   moveName, moveFrom>>
    /\ SlaveFrame

\* moveToColor lines 422 (loop exit) and 429-430
UpdatePosition ==
    /\ spc = "step"
    /\ ~step_loop_runs(stepIndex, stepsToMove)
    /\ currentPosition' = targetPosition
    /\ spc' = "disable"
    /\ slaveSerial' = <<>>
    /\ UNCHANGED <<currentMode, jsonBuffer, receiveBuffer, unread,
                   newCommandReceived, modeChanged, ENA_PIN, DIR_PIN,
                   targetPosition, stepsToMove, stepIndex, pins, moveName,
                   moveFrom, pulses>>
    /\ SlaveFrame

\* mutant: the driver is left enabled after the move
DisableDriver_left_enabled ==
    /\ spc = "disable"
    /\ spc' = "clear"
    /\ slaveSerial' = <<"Now at color position: ">>
    /\ UNCHANGED <<currentMode, jsonBuffer, receiveBuffer, unread,
                   newCommandReceived, modeChanged, currentPosition,
                   ENA_PIN, DIR_PIN, targetPosition, stepsToMove, stepIndex,
                   pins, moveName, moveFrom, pulses>>
    /\ SlaveFrame

\* moveToColor lines 432-438
DisableDriver ==
    /\ spc = "disable"
    /\ ENA_PIN' = "HIGH"
    /\ spc' = "clear"
    /\ slaveSerial' = <<"Now at color position: ">>
    /\ UNCHANGED <<currentMode, jsonBuffer, receiveBuffer, unread,
                   newCommandReceived, modeChanged, currentPosition,
                   DIR_PIN, targetPosition, stepsToMove, stepIndex, pins,
                   moveName, moveFrom, pulses>>
    /\ SlaveFrame

\* loop line 308
ClearCommand ==
    /\ spc = "clear"
    /\ newCommandReceived' = FALSE
    /\ spc' = "sleep"
    /\ slaveSerial' = <<>>
    /\ UNCHANGED <<currentMode, jsonBuffer, receiveBuffer, unread, modeChanged,
                   currentPosition, ENA_PIN, DIR_PIN, targetPosition,
                   stepsToMove, stepIndex, pins, moveName, moveFrom, pulses>>
    /\ SlaveFrame

\* loop line 312
Sleep ==
    /\ spc = "sleep"
    /\ spc' = "check"
    /\ slaveSerial' = <<>>
    /\ UNCHANGED <<currentMode, jsonBuffer, receiveBuffer, unread,
                   newCommandReceived, modeChanged, currentPosition,
                   ENA_PIN, DIR_PIN, targetPosition, stepsToMove, stepIndex,
                   pins, moveName, moveFrom, pulses>>
    /\ SlaveFrame

\* mutant: bytes arriving during a move end the move
receiveEvent_cancels_move(bytes) ==
    /\ receiveBuffer' = receive_into_buffer(bytes)
    /\ IF Len(receive_into_buffer(bytes)) > 0
       THEN /\ newCommandReceived' = TRUE
            /\ slaveSerial' = <<"Received: ">>
            /\ unread' = IF spc \in {"enable", "dir", "step", "disable"}
                         THEN "move" ELSE "idle"
       ELSE UNCHANGED <<newCommandReceived, slaveSerial, unread>>
    /\ spc' = IF spc \in {"dir", "step"} THEN "disable" ELSE spc
    /\ UNCHANGED <<currentMode, jsonBuffer, modeChanged, currentPosition,
                   ENA_PIN, DIR_PIN, targetPosition, stepsToMove,
                   stepIndex, pins, moveName, moveFrom, pulses>>

\* receiveEvent lines 326-350, for the bytes of one bus write
receiveEvent(bytes) ==
    /\ receiveBuffer' = receive_into_buffer(bytes)
    /\ IF Len(receive_into_buffer(bytes)) > 0
       THEN /\ newCommandReceived' = TRUE
            /\ slaveSerial' = <<"Received: ">>
            /\ unread' = IF spc \in {"enable", "dir", "step", "disable"}
                         THEN "move" ELSE "idle"
       ELSE UNCHANGED <<newCommandReceived, slaveSerial, unread>>
    /\ UNCHANGED <<currentMode, jsonBuffer, modeChanged, currentPosition,
                   ENA_PIN, DIR_PIN, spc, targetPosition, stepsToMove,
                   stepIndex, pins, moveName, moveFrom, pulses>>

ReceiveInterrupt ==
    /\ \E bytes \in BusCommands : receiveEvent(bytes)
    /\ SlaveFrame

SlaveNext ==
    \/ CheckModePins
    \/ UpdateJson
    \/ Command
    \/ EnableDriver
    \/ SetDirection
    \/ StepPulse
    \/ UpdatePosition
    \/ DisableDriver
    \/ ClearCommand
    \/ Sleep
    \/ ReceiveInterrupt

SpecSlave == Init /\ [][SlaveNext]_vars

Next ==
    \/ ThrottleTick
    \/ LocalIngest
    \/ ProcessJson
    \/ BusIngest
    \/ Delay

Spec == Init /\ [][Next]_vars

(***************************************************************************)
(* The relay polling the slave. Each iteration's Wire.requestFrom(0x08,    *)
(* 32) runs requestEvent on the slave, which writes jsonBuffer; the local  *)
(* channel is silent and the mode inputs change once, before the relay's   *)
(* first delay.                                                            *)
(***************************************************************************)
\* requestEvent lines 316-318: Wire.write(jsonBuffer) sends the C string
requestEvent == jsonBuffer

\* what the master reads for the bytes it asked for and the slave did not
\* write: the idle level of the bus
BUS_IDLE == "0xFF"
\* the master's read of the answer: the bytes written, or all REQUEST_SIZE
\* bytes with the idle level after the text
PollAnswers ==
    { requestEvent,
      requestEvent \o [i \in 1..(REQUEST_SIZE - Len(requestEvent)) |->
                         BUS_IDLE] }

\* lines 79-108 with the slave answering
PollSlave == \E data \in PollAnswers : BusIngestOf(data)

\* lines 53-77 with nothing on the local channel
QuietLocal == LocalIngestOf(<<>>)

InitialPins == [spindle |-> "LOW", laser |-> "LOW", drawing |-> "LOW"]

\* checkModePins with inputs that leave their initial levels at most once
SenseOnce ==
    \E p \in PinLevels :
        /\ p # pins => (pins = InitialPins /\ ticks = 0)
        /\ CheckModePinsOf(p)

NextSystem ==
    \/ ThrottleTick
    \/ QuietLocal
    \/ PollSlave
    \/ ProcessJson
    \/ Delay
    \/ SenseOnce
    \/ UpdateJson
    \/ Command
    \/ Sleep

SpecSystem == Init /\ [][NextSystem]_vars

(***************************************************************************)
(* The relay polling the slave, both scheduled fairly. requestEvent is an  *)
(* interrupt handler: a poll that arrives while loop() is inside           *)
(* updateJsonBuffer reads a buffer of which serializeJson has written only *)
(* the first bytes.                                                        *)
(***************************************************************************)
MaxPollTicks == 4

\* jsonBuffer as a C string when the first k bytes of the new text are in
Tear(before, after, k) ==
    [i \in 1..(IF k >= Len(before) THEN k ELSE Len(before)) |->
        IF i <= k THEN after[i] ELSE before[i]]

\* requestEvent lines 316-318 run between two writes of serializeJson
requestEventMidUpdate ==
    { Tear(jsonBuffer, updateJsonBuffer(currentMode), k) :
        k \in 1..(Len(updateJsonBuffer(currentMode)) - 1) }

\* lines 79-108 with the slave answering from inside updateJsonBuffer
PollSlaveMidUpdate ==
    /\ spc = "update"
    /\ modeChanged
    /\ \E data \in requestEventMidUpdate : BusIngestOf(data)

\* lines 112-115, for the iterations looked at
DelayFew == ticks < MaxPollTicks /\ Delay

\* one step of mks_i2c_poll_task
RelayStep ==
    \/ ThrottleTick
    \/ QuietLocal
    \/ PollSlave
    \/ PollSlaveMidUpdate
    \/ ProcessJson
    \/ DelayFew

\* one step of the slave's loop()
SlaveStep ==
    \/ SenseOnce
    \/ UpdateJson
    \/ Command
    \/ Sleep

NextPolling == RelayStep \/ SlaveStep

\* RelayStep seen from the task's position alone: some step of the loop
\* body is enabled unless the last delay looked at has been reached, and a
\* step of NextPolling moves pc exactly when it is a RelayStep
RelayAdvance ==
    /\ pc = "delay" => ticks < MaxPollTicks
    /\ \E t \in { <<"tick", "serial">>, <<"serial", "wire">>,
                   <<"wire", "wire_json">>, <<"wire", "delay">>,
                   <<"wire_json", "delay">>, <<"delay", "tick">> } :
           pc = t[1] /\ pc' = t[2]

\* the FreeRTOS task and the Arduino loop both keep running
SpecPolling ==
    /\ Init
    /\ [][NextPolling]_vars
    /\ WF_pc(RelayAdvance)
    /\ WF_vars(SlaveStep)

(***************************************************************************)
(* The throttled relay with the millisecond counter three iterations       *)
(* before its wrap (49.7 days after start): millis() = 2^32 - 300          *)
(***************************************************************************)
BeforeWrap == 0 - 3 * I2C_POLL_INTERVAL

InitWrap == InitClock("tick", BeforeWrap)

SpecWrap == InitWrap /\ [][Next]_vars

(***************************************************************************)
(* The unthrottled revision of the relay, MKS_I2C_Slave.cpp lines 219-379: *)
(* every encoded message is forwarded once and processed; the mode names   *)
(* are compared with strcmp and a gcode field is handed to the executor.   *)
(*   serial [-> serial_json] -> wire [-> wire_json] -> delay               *)
(***************************************************************************)
\* lines 320-331: the strcmp chain, no assignment when nothing matches
ModeOfNameExact(mode, machine_mode) ==
    IF strcmp0(mode, s_spindle) THEN MODE_SPINDLE
    ELSE IF strcmp0(mode, s_laser) THEN MODE_LASER
    ELSE IF strcmp0(mode, s_drawing) THEN MODE_DRAWING
    ELSE IF strcmp0(mode, s_none) THEN MODE_NONE
    ELSE machine_mode

\* what gc_execute_line may return
ExecutorStatus == {"Ok", "Error"}

\* lines 340-359: the gcode field of a parsed document
apply_gcode_field(doc, status_code) ==
    IF containsKey(doc, s_gcode) /\ ~member(doc, s_gcode).null
    THEN LET gcode == member(doc, s_gcode).str
         IN  [out |-> <<Line("CLIENT_SERIAL", "Executing G-code: %s", gcode)>>
                      \o IF status_code # "Ok"
                         THEN <<Line("CLIENT_SERIAL", "G-code error: %s",
                                     <<>>)>>
                         ELSE <<>>,
              exec |-> <<strncpy(gcode, BUF_SIZE - 1)>>]
    ELSE [out |-> <<>>, exec |-> <<>>]

\* lines 308-362
mks_i2c_process_json_unthrottled(json, machine_mode, status_code) ==
    LET parse == deserializeJson(json)
    IN  IF parse.error
        THEN [mode |-> machine_mode, out |-> <<ParseErrorLine>>,
              exec |-> <<>>]
        ELSE LET doc == parse.doc
                 has_mode == containsKey(doc, s_mode)
                             /\ ~member(doc, s_mode).null
                 new_mode == IF has_mode
                             THEN ModeOfNameExact(member(doc, s_mode).str,
                                                  machine_mode)
                             ELSE machine_mode
                 g == apply_gcode_field(doc, status_code)
             IN  [mode |-> new_mode,
                  out |-> (IF has_mode
                           THEN <<report_machine_mode(new_mode)>>
                           ELSE <<>>) \o g.out,
                  exec |-> g.exec]

\* what the unthrottled steps leave alone: the window and its history
NoWindow == <<last_json_report_time, mode_change_time,
              throttled_reporting_active, last_json_content, current_time,
              emitLog, trig, pre>>

\* lines 253-268
LocalIngestUnthrottled ==
    /\ pc = "serial"
    /\ \E line \in SerialLines :
          /\ line # <<>> => InputsOpen
          /\ LET buf == read_into_buffer(line)
             IN  /\ i2c_buffer' = IF Len(buf) > 0 THEN buf ELSE i2c_buffer
                 /\ IF is_json_line(buf)
                    THEN /\ console' = <<forward_json_to_console(Drop(buf, 2))>>
                         /\ jsonLines' = jsonLines + 1
                         /\ pending' = pending + 1
                         /\ unreported' = FALSE
                         /\ pc' = "serial_json"
                    ELSE /\ console' = <<>>
                         /\ UNCHANGED <<jsonLines, pending, unreported>>
                         /\ pc' = "wire"
    /\ parsed' = "idle"
    /\ repeated' = FALSE
    /\ UNCHANGED <<mks_machine_mode, millis, executed, sent, slaveVars,
                   ticks, prevJson, localJson, NoWindow>>

\* lines 270-290: Wire.requestFrom(0x08, 32) delivers at most 32 bytes
BusIngestUnthrottled ==
    /\ pc = "wire"
    /\ \E data \in WireData :
          /\ data # <<>> => InputsOpen
          /\ LET buf == read_into_buffer(Take(data, REQUEST_SIZE))
             IN  /\ i2c_buffer' = IF Len(buf) > 0 THEN buf ELSE i2c_buffer
                 /\ IF is_json_payload(buf)
                    THEN /\ console' = <<forward_json_to_console(buf)>>
                         /\ jsonLines' = jsonLines + 1
                         /\ pending' = pending + 1
                         /\ unreported' = FALSE
                         /\ pc' = "wire_json"
                    ELSE /\ console' = <<>>
                         /\ UNCHANGED <<jsonLines, pending, unreported>>
                         /\ pc' = "delay"
    /\ parsed' = "idle"
    /\ repeated' = FALSE
    /\ UNCHANGED <<mks_machine_mode, millis, executed, sent, slaveVars,
                   ticks, prevJson, localJson, NoWindow>>

\* lines 265 and 287 with lines 308-362
ProcessJsonUnthrottled ==
    /\ pc \in {"serial_json", "wire_json"}
    /\ \E status_code \in ExecutorStatus :
          LET r == mks_i2c_process_json_unthrottled(JsonArg, mks_machine_mode,
                                                    status_code)
          IN  /\ mks_machine_mode' = r.mode
              /\ console' = r.out
              /\ executed' = r.exec
              /\ jsonLines' = IF r.mode # mks_machine_mode THEN 0
                              ELSE jsonLines
    /\ pending' = pending - 1
    /\ unreported' = unreported
    /\ parsed' = IF deserializeJson(JsonArg).error THEN "error" ELSE "ok"
    /\ prevJson' = JsonArg
    /\ localJson' = IF pc = "serial_json" THEN JsonArg ELSE localJson
    /\ repeated' = (JsonArg = prevJson)
    /\ pc' = IF pc = "serial_json" THEN "wire" ELSE "delay"
    /\ UNCHANGED <<i2c_buffer, millis, sent, slaveVars, ticks, NoWindow>>

\* lines 292-297
DelayUnthrottled ==
    /\ pc = "delay"
    /\ ticks < MaxTicks
    /\ millis' = millis + task_delay * portTICK_PERIOD_MS
    /\ ticks' = ticks + 1
    /\ pc' = "serial"
    /\ console' = <<>>
    /\ parsed' = "idle"
    /\ repeated' = FALSE
    /\ UNCHANGED <<mks_machine_mode, i2c_buffer, executed, sent, slaveVars,
                   prevJson, localJson, jsonLines, pending, unreported,
                   NoWindow>>

InitUnthrottled == InitAt("serial")

NextUnthrottled ==
    \/ LocalIngestUnthrottled
    \/ BusIngestUnthrottled
    \/ ProcessJsonUnthrottled
    \/ DelayUnthrottled

SpecUnthrottled == InitUnthrottled /\ [][NextUnthrottled]_vars

(***************************************************************************)
(* The outbound command path, called from the host's command task while    *)
(* the poll task runs                                                      *)
(***************************************************************************)
\* the iterations of the poll task explored beside the sender
MaxSendTicks == 1

SendCall ==
    /\ \E json \in SendPayloads, result \in WireResults, short \in 0..1 :
          LET valid == ~json.null /\ Len(json.str) \in 1..maxPayloadSize
              bytesWritten == IF valid THEN Len(json.str) - short ELSE 0
              status == IF valid THEN result ELSE 0
              r == send_json_to_arduino(json, bytesWritten, status)
          IN  /\ sent' = [called |-> TRUE, json |-> json,
                          bytesWritten |-> bytesWritten, result |-> status,
                          ret |-> r.ret, writes |-> r.writes]
              /\ console' = r.out
    /\ UNCHANGED <<mks_machine_mode, i2c_buffer, last_json_report_time,
                   mode_change_time, throttled_reporting_active,
                   last_json_content, current_time, pc, millis, executed,
                   historyVars>>

\* the call with nobody at the other end of the bus
Send == SendCall /\ UNCHANGED slaveVars

SendNext ==
    \/ Send
    \/ ThrottleTick
    \/ LocalIngest
    \/ ProcessJson
    \/ BusIngest
    \/ (ticks < MaxSendTicks /\ Delay)

SpecSend == Init /\ [][SendNext]_vars

(***************************************************************************)
(* The outbound command path with the slave at the other end: the bytes of *)
(* a transmission that the slave acknowledged run its receiveEvent before  *)
(* Wire.endTransmission returns. The mode inputs stay low.                 *)
(***************************************************************************)
Transmit ==
    /\ SendCall
    /\ IF sent'.result = 0 /\ Len(sent'.writes) > 0
       THEN receiveEvent(sent'.writes[1])
       ELSE UNCHANGED slaveVars

\* checkModePins with the mode inputs left as they are after reset
QuietPins == CheckModePinsOf(InitialPins)

NextLink ==
    \/ Transmit
    \/ QuietPins
    \/ UpdateJson
    \/ Command
    \/ EnableDriver
    \/ SetDirection
    \/ StepPulse
    \/ UpdatePosition
    \/ DisableDriver
    \/ ClearCommand
    \/ Sleep

SpecLink == Init /\ [][NextLink]_vars



(***************************************************************************)
(* Properties                                                              *)
(***************************************************************************)
ModeNames == {s_spindle, s_laser, s_drawing, s_none}
ModeConstant(name) ==
    CASE name = s_spindle -> MODE_SPINDLE
      [] name = s_laser -> MODE_LASER
      [] name = s_drawing -> MODE_DRAWING
      [] OTHER -> MODE_NONE

\* a mks_i2c_process_json call is about to run
AtProcessJson == pc \in {"serial_json", "wire_json"}
\* its argument is well formed and has a mode string
HasModeString(json) ==
    LET parse == deserializeJson(json)
    IN  /\ ~parse.error
        /\ containsKey(parse.doc, s_mode)
        /\ ~member(parse.doc, s_mode).null
ModeString(json) == member(deserializeJson(json).doc, s_mode).str
\* the string starts with one of the four names
Recognized(name) ==
    \E m \in ModeNames : Len(name) >= Len(m) /\ SubSeq(name, 1, Len(m)) = m

\* C1: after one triggering ingest that finds no window active and does not
\* change the applied Mode, and with no further encoded message, the console
\* gets exactly 10 [JSON:...] lines counting the first, any two consecutive
\* ones at least JSON_REPORT_INTERVAL apart, and none once the window closed.
C1_TenEmissions ==
    trig = "clean" =>
        /\ Len(emitLog) <= 10
        /\ \A k \in 1..(Len(emitLog) - 1) :
               emitLog[k + 1] - emitLog[k] >= JSON_REPORT_INTERVAL
        /\ ~throttled_reporting_active => Len(emitLog) = 10

\* C2: mks_i2c_process_json on a well-formed {"mode": m} leaves the applied
\* Mode at the constant of m for each of the four names, and leaves it as it
\* was for a string that is none of them.
C2_ModeApplied ==
    [][ (AtProcessJson /\ HasModeString(JsonArg)) =>
            LET name == ModeString(JsonArg)
            IN  /\ name \in ModeNames =>
                       mks_machine_mode' = ModeConstant(name)
                /\ ~Recognized(name) =>
                       mks_machine_mode' = mks_machine_mode ]_vars


(***************************************************************************)
(* Position controller                                                     *)
(***************************************************************************)
InTable(name) == \E i \in 1..NUM_COLORS : colorPositions[i].name = name
PositionOf(name) ==
    colorPositions[CHOOSE i \in 1..NUM_COLORS :
                       colorPositions[i].name = name].position
\* the last moveToColor call is past its pulse loop
MoveOver == spc \notin {"enable", "dir", "step"}

\* C3: moveToColor(n) from position p, for a table name n at position t,
\* emits exactly |t - p| step pulses, with the direction output HIGH when
\* t > p and LOW when t < p, and ends with currentPosition = t.
C3_MoveExact ==
    InTable(moveName) =>
        LET t == PositionOf(moveName)
            d == t - moveFrom
        IN  /\ pulses <= Abs(d)
            /\ (pulses > 0 /\ d > 0) => DIR_PIN = "HIGH"
            /\ (pulses > 0 /\ d < 0) => DIR_PIN = "LOW"
            /\ MoveOver => pulses = Abs(d) /\ currentPosition = t

\* from 400, cyan has given 400 pulses in reverse and the position is 0
C3_Witness ==
    /\ spc = "clear"
    /\ moveName = s_cyan
    /\ moveFrom = 400
    /\ pulses = 400
    /\ DIR_PIN = "LOW"
    /\ currentPosition = 0

\* the Command step, once taken (spc changes), calls moveToColor, and with
\* what
CallsMoveToColor ==
    /\ spc = "command"
    /\ newCommandReceived
    /\ LET parse == deserializeJson(receiveBuffer)
       IN  /\ ~parse.error
           /\ containsKey(parse.doc, s_color)
           /\ ~member(parse.doc, s_color).null
CalledColor == member(deserializeJson(receiveBuffer).doc, s_color).str

\* C4: moveToColor with a name that is in no entry of the position table
\* (compared exactly, case included) emits no step pulse, never enables the
\* driver, leaves currentPosition as it was and reports an unknown color.
C4_UnknownColor ==
    [][ /\ (CallsMoveToColor /\ spc' # spc /\ ~InTable(CalledColor)) =>
               /\ "Unknown color: " \in
                      {slaveSerial'[k] : k \in 1..Len(slaveSerial')}
               /\ spc' = "clear"
               /\ moveName' = CalledColor
        /\ ~InTable(moveName') =>
               /\ pulses' = 0
               /\ ENA_PIN' = "HIGH"
               /\ currentPosition' = moveFrom'
               /\ spc' \notin {"enable", "dir", "step", "disable"}
      ]_vars

\* at position 200, "Cyan" was refused
C4_Witness ==
    /\ spc = "clear"
    /\ moveName = s_Cyan
    /\ slaveSerial = <<"Color command received: ", "Unknown color: ">>
    /\ currentPosition = 200
    /\ pulses = 0
    /\ ENA_PIN = "HIGH"

(***************************************************************************)
(* Parse and apply                                                         *)
(***************************************************************************)
\* C5: mks_i2c_process_json on a payload that does not deserialize reports a
\* parse error and returns with the applied Mode, the active flag and both
\* time stamps as they were, with no mode report and no gcode executed.
C5_ParseErrorNoChange ==
    [][ (AtProcessJson /\ deserializeJson(JsonArg).error) =>
            /\ console' = <<ParseErrorLine>>
            /\ executed' = <<>>
            /\ mks_machine_mode' = mks_machine_mode
            /\ throttled_reporting_active' = throttled_reporting_active
            /\ mode_change_time' = mode_change_time
            /\ last_json_report_time' = last_json_report_time ]_vars

\* a parse error was reported with Mode laser and a window open
C5_Witness ==
    /\ parsed = "error"
    /\ console = <<ParseErrorLine>>
    /\ mks_machine_mode = MODE_LASER
    /\ throttled_reporting_active

\* C6 as stated: when an ingested encoded message fails to parse, the relay
\* state after the ingest (Mode, active flag, both stamps, lastPayload) is
\* the state before it.
C6_IngestNoMutation == parsed = "error" => RelayState = pre

\* C6 amended: when an ingested encoded message fails to parse, the parse
\* changes nothing, but the ingest has stored the payload and, if no window
\* was active, opened one at the tick's time: afterwards the Mode is as
\* before, lastPayload is the ingested payload, the window is active, and
\* both stamps are as before if a window was active and current_time if not.
C6_IngestStoresThenDiscards ==
    parsed = "error" =>
        /\ mks_machine_mode = pre.mode
        /\ last_json_content = prevJson
        /\ throttled_reporting_active
        /\ pre.window.active =>
               /\ mode_change_time = pre.window.mode_change_time
               /\ last_json_report_time = pre.window.last_json_report_time
        /\ ~pre.window.active =>
               /\ mode_change_time = current_time
               /\ last_json_report_time = current_time

\* a malformed bus payload was ingested 300 ms into an open window
C6_Witness ==
    /\ parsed = "error"
    /\ pc = "delay"
    /\ pre.window.active
    /\ pre.window.last_json_content # prevJson
    /\ current_time - mode_change_time = 300

\* C7: a well-formed mode message applied a second time in a row leaves the
\* applied Mode as the first application left it and, reporting on change
\* only, leaves the window (flag, stamps, payload) as it was before it.
C7_Idempotent ==
    [][ (AtProcessJson /\ JsonArg = prevJson /\ HasModeString(JsonArg)) =>
            /\ mks_machine_mode' = mks_machine_mode
            /\ console' = <<>>
            /\ throttled_reporting_active' = throttled_reporting_active
            /\ mode_change_time' = mode_change_time
            /\ last_json_report_time' = last_json_report_time
            /\ last_json_content' = last_json_content ]_vars

\* {"mode":"laser"} was applied twice in a row, the second time with the
\* window open
C7_Witness ==
    /\ repeated
    /\ parsed = "ok"
    /\ prevJson = ModeMsg(s_laser)
    /\ mks_machine_mode = MODE_LASER
    /\ throttled_reporting_active

\* the call's argument is well formed and has a gcode string
HasGcodeString(json) ==
    LET parse == deserializeJson(json)
    IN  /\ ~parse.error
        /\ containsKey(parse.doc, s_gcode)
        /\ ~member(parse.doc, s_gcode).null
GcodeString(json) == member(deserializeJson(json).doc, s_gcode).str

\* C8: for a well-formed payload with a gcode field g, parse-and-apply calls
\* the command executor exactly once, with the first min(len(g), 255) bytes
\* of g, and the executor's status does not change the applied Mode.
C8_GcodeForwarded ==
    [][ (AtProcessJson /\ HasGcodeString(JsonArg)) =>
            /\ executed' = <<Take(GcodeString(JsonArg), BUF_SIZE - 1)>>
            /\ ~HasModeString(JsonArg) =>
                   mks_machine_mode' = mks_machine_mode ]_vars

(***************************************************************************)
(* Outbound command path                                                   *)
(***************************************************************************)
\* C9: send_json_to_arduino returns true exactly when the payload is not
\* null, is 1 to 32 bytes long, the bus reports status 0 and as many bytes
\* were written as the payload has; a null, empty or longer payload causes
\* no transmission; there is never more than one transmission per call; and
\* the applied Mode and the window are left alone.
C9_SendContract ==
    [][ sent' # sent =>
          LET c == sent'
              len == Len(c.json.str)
              valid == ~c.json.null /\ len >= 1 /\ len <= 32
          IN  /\ c.ret <=> (valid /\ c.result = 0 /\ c.bytesWritten = len)
              /\ ~valid => c.writes = <<>>
              /\ Len(c.writes) <= 1
              /\ valid => Len(c.writes) = 1
              /\ mks_machine_mode' = mks_machine_mode
              /\ Window' = Window ]_vars

\* a payload of exactly 32 bytes went out and the call returned true, with
\* Mode laser and a window open
C9_Witness ==
    /\ sent.called
    /\ sent.ret
    /\ Len(sent.json.str) = 32
    /\ sent.writes = <<sent.json.str>>
    /\ mks_machine_mode = MODE_LASER
    /\ throttled_reporting_active

(***************************************************************************)
(* Mode sensor                                                             *)
(***************************************************************************)
\* C10: for all 8 combinations of the three inputs the sensed mode is
\* Spindle if the spindle input is HIGH, else Laser if the laser input is
\* HIGH, else Drawing if the drawing input is HIGH, else None, whatever the
\* mode was before.
C10_Priority ==
    currentMode =
        (CASE pins.spindle = "HIGH" -> MODE_SPINDLE
           [] pins.spindle = "LOW" /\ pins.laser = "HIGH" -> MODE_LASER
           [] pins.spindle = "LOW" /\ pins.laser = "LOW"
                /\ pins.drawing = "HIGH" -> MODE_DRAWING
           [] OTHER -> MODE_NONE)

\* laser and drawing both HIGH were read as Laser, coming from Spindle
C10_Witness ==
    /\ spc = "update"
    /\ pins = [spindle |-> "LOW", laser |-> "HIGH", drawing |-> "HIGH"]
    /\ currentMode = MODE_LASER
    /\ modeChanged
    /\ jsonBuffer = updateJsonBuffer(MODE_SPINDLE)

(***************************************************************************)
(* Relay and slave together                                                *)
(***************************************************************************)
JsonLineOnConsole ==
    \E k \in 1..Len(console) : console[k].fmt = "[JSON:%s]"

\* the most lines one window carries: the first and one per interval up to
\* and including the one at JSON_REPORT_DURATION
LinesPerWindow == JSON_REPORT_DURATION \div JSON_REPORT_INTERVAL + 1

\* C11: after the single change of the slave's sensed mode has reached the
\* relay (the applied Mode changed), with the master polling every
\* iteration and no other input, the [JSON:...] lines written from then on
\* stay within what one window carries, and none is written any more once
\* that window has closed.
C11_BoundedBurst ==
    mks_machine_mode # MODE_NONE => jsonLines <= LinesPerWindow

(***************************************************************************)
(* Mode notification                                                       *)
(***************************************************************************)
\* the [MODE:...] lines among the lines a step wrote
ModeLines(out) == {k \in 1..Len(out) : out[k].fmt = "[MODE:%s]"}

\* C12: in the throttled revision a [MODE:<name>] line is written exactly
\* when mks_i2c_process_json changes the applied Mode: one line per change,
\* to all clients, <name> being the name of the new applied Mode; a call that
\* leaves the Mode as it was, and every other step, writes none.
C12_ModeNotification ==
    [][ IF AtProcessJson /\ mks_machine_mode' # mks_machine_mode
        THEN /\ Cardinality(ModeLines(console')) = 1
             /\ \A k \in ModeLines(console') :
                    /\ console'[k].client = "CLIENT_ALL"
                    /\ console'[k].arg \in ModeNames
                    /\ ModeConstant(console'[k].arg) = mks_machine_mode'
        ELSE ModeLines(console') = {} ]_vars

\* the Mode went from spindle to laser and one line announced laser
C12_Witness ==
    /\ parsed = "ok"
    /\ pre.mode = MODE_SPINDLE
    /\ mks_machine_mode = MODE_LASER
    /\ console = <<[client |-> "CLIENT_ALL", fmt |-> "[MODE:%s]",
                   arg |-> s_laser]>>

(***************************************************************************)
(* Ingest and the throttle window                                          *)
(***************************************************************************)
\* a step that ingests an encoded message, from either channel
IngestStep ==
    \/ pc = "serial" /\ pc' = "serial_json"
    \/ pc = "wire" /\ pc' = "wire_json"

\* C13: an ingest that finds no window active writes [JSON:<payload>] once
\* and opens a window whose start and last-emit stamps are the iteration's
\* current_time; an ingest that finds a window active writes nothing and
\* leaves flag and stamps alone; both channels alike.
C13_IngestOpensWindow ==
    [][ IngestStep =>
            IF ~throttled_reporting_active
            THEN /\ console' = <<[client |-> "CLIENT_SERIAL",
                                 fmt |-> "[JSON:%s]", arg |-> JsonArg']>>
                 /\ throttled_reporting_active'
                 /\ mode_change_time' = current_time
                 /\ last_json_report_time' = current_time
            ELSE /\ console' = <<>>
                 /\ throttled_reporting_active'
                 /\ mode_change_time' = mode_change_time
                 /\ last_json_report_time' = last_json_report_time ]_vars

\* a bus payload has just opened a window 200 ms after the task started
C13_Witness ==
    /\ pc = "wire_json"
    /\ ~pre.window.active
    /\ throttled_reporting_active
    /\ console = <<forward_json_to_console(i2c_buffer)>>
    /\ mode_change_time = 200
    /\ last_json_report_time = 200

\* C14: every encoded message the relay ingests, from either channel and
\* with a window active or not, is handed to mks_i2c_process_json exactly
\* once, by the relay's next step and within the same iteration: a message
\* is pending exactly while a call is about to run, and the call that takes
\* it is made on the stored payload before the iteration's delay.
C14_ProcessedOnce ==
    [][ /\ pending' = IF pc' \in {"serial_json", "wire_json"} THEN 1 ELSE 0
        /\ pending = 1 =>
               /\ pending' = 0
               /\ parsed' # "idle"
               /\ prevJson' = last_json_content
               /\ ticks' = ticks ]_vars

\* a message ingested while a window was active has been processed
C14_Witness ==
    /\ parsed = "ok"
    /\ pending = 0
    /\ pre.window.active
    /\ prevJson = last_json_content
    /\ prevJson # pre.window.last_json_content

\* C15: right after mks_i2c_process_json has changed the applied Mode the
\* window is inactive, also when the ingest of that same message had just
\* opened it; a call that leaves the Mode as it was leaves the window's
\* active flag as it was.
C15_ModeChangeEndsWindow ==
    [][ AtProcessJson =>
            IF mks_machine_mode' # mks_machine_mode
            THEN ~throttled_reporting_active'
            ELSE throttled_reporting_active' = throttled_reporting_active
      ]_vars

\* a message opened a window at 100 ms and its own mode change closed it
C15_Witness ==
    /\ parsed = "ok"
    /\ ~pre.window.active
    /\ mode_change_time = 100
    /\ current_time = 100
    /\ mks_machine_mode # pre.mode
    /\ ~throttled_reporting_active

(***************************************************************************)
(* Driver outputs                                                          *)
(***************************************************************************)
\* between digitalWrite(ENA_PIN, LOW) and digitalWrite(ENA_PIN, HIGH) of a
\* moveToColor call
MoveInProgress == spc \in {"dir", "step", "disable"}

\* C16: the enable output is LOW (driver enabled) only while a move is in
\* progress; whenever the position controller is idle (after setup, before
\* and after every moveToColor call, the unknown-name and already-at-target
\* calls included) it is HIGH.
C16_EnabledOnlyInMove == ~MoveInProgress => ENA_PIN = "HIGH"

\* idle after a move of 200 pulses
C16_Witness ==
    /\ spc = "sleep"
    /\ pulses = 200
    /\ currentPosition = 200
    /\ ENA_PIN = "HIGH"

(***************************************************************************)
(* Commands arriving during a move                                         *)
(***************************************************************************)
\* C17: a command that receiveEvent took in while a move was in progress is
\* deferred, not dropped: until processReceivedCommand has read it, it stays
\* flagged as new, so that the loop executes it once the move is over.
C17_DeferredNotDropped == unread = "move" => newCommandReceived

(***************************************************************************)
(* The stamps of an active window                                          *)
(***************************************************************************)
\* the window is active before and after the step
StaysActive == throttled_reporting_active /\ throttled_reporting_active'

\* C18 as stated: while a window is active last_json_report_time never
\* decreases, and every update of it by the throttle tick raises it by at
\* least JSON_REPORT_INTERVAL.
C18_LastEmitMonotone ==
    [][ StaysActive =>
            /\ ~ULess(last_json_report_time', last_json_report_time)
            /\ last_json_report_time' # last_json_report_time =>
                   /\ pc = "tick"
                   /\ last_json_report_time' - last_json_report_time
                          >= JSON_REPORT_INTERVAL ]_vars

\* C18 amended: while a window is active last_json_report_time is changed by
\* the throttle tick only, which sets it to the iteration's current_time, at
\* least JSON_REPORT_INTERVAL later than its previous value in the unsigned
\* difference modulo 2^32, so two repeats within a window are never closer
\* than that; its value never decreases except across the wrap of the
\* millisecond counter at 2^32.
C18_LastEmitSpaced ==
    [][ StaysActive =>
            /\ last_json_report_time' # last_json_report_time =>
                   /\ pc = "tick"
                   /\ last_json_report_time' = current_time'
                   /\ Since(last_json_report_time', last_json_report_time)
                          >= JSON_REPORT_INTERVAL
            /\ ~(last_json_report_time < 0 /\ last_json_report_time' >= 0)
                   => ~ULess(last_json_report_time', last_json_report_time)
      ]_vars

\* a repeat has just been written after the counter wrapped: the stamp went
\* from 2^32 - 100 to 400
C18_Witness ==
    /\ pc = "serial"
    /\ throttled_reporting_active
    /\ console # <<>>
    /\ last_json_report_time = 400
    /\ mode_change_time = 0 - I2C_POLL_INTERVAL
    /\ emitLog = <<200, 700>>

\* C19: an ingest that finds a window active replaces last_json_content and
\* leaves both stamps alone, so further messages never extend a window: the
\* throttle tick keeps it while millis() - mode_change_time is at most
\* JSON_REPORT_DURATION and deactivates it at the first iteration where it
\* is more, and no window is active past that age.
C19_WindowNotExtended ==
    [][ /\ (IngestStep /\ throttled_reporting_active) =>
               /\ mode_change_time' = mode_change_time
               /\ last_json_report_time' = last_json_report_time
               /\ last_json_content' = JsonArg'
        /\ (pc = "tick" /\ pc' = "serial" /\ throttled_reporting_active) =>
               (throttled_reporting_active' <=>
                    Since(millis, mode_change_time) <= JSON_REPORT_DURATION)
        /\ (throttled_reporting_active' /\ pc' # "tick") =>
               Since(current_time', mode_change_time')
                   <= JSON_REPORT_DURATION ]_vars

\* a window that took in further messages was closed by the tick 5100 ms
\* after it opened
C19_Witness ==
    /\ pc = "serial"
    /\ ~throttled_reporting_active
    /\ trig = "dirty"
    /\ Len(emitLog) > 1
    /\ current_time - mode_change_time
           = JSON_REPORT_DURATION + I2C_POLL_INTERVAL

(***************************************************************************)
(* Order of the outputs in a move                                          *)
(***************************************************************************)
\* the level the direction output must have for the move under way
MoveDirection == IF targetPosition > moveFrom THEN "HIGH" ELSE "LOW"

\* C20 as stated: in a move the direction output is set before the driver
\* is enabled, and currentPosition is set after the driver is disabled.
C20_OrderAsStated ==
    [][ /\ (ENA_PIN = "HIGH" /\ ENA_PIN' = "LOW") =>
               DIR_PIN = direction(stepsToMove)
        /\ currentPosition' # currentPosition => ENA_PIN = "HIGH" ]_vars

\* C20 amended: in a move with non-zero delta the driver is enabled first,
\* then the direction output is set, then the abs(delta) pulses are emitted,
\* then currentPosition is set to the target, and the driver is disabled
\* last.
C20_OrderOfMove ==
    [][ /\ (ENA_PIN = "HIGH" /\ ENA_PIN' = "LOW") =>
               /\ pulses = 0
               /\ stepsToMove # 0
               /\ currentPosition = moveFrom
        /\ DIR_PIN' # DIR_PIN =>
               /\ ENA_PIN = "LOW"
               /\ pulses = 0
               /\ DIR_PIN' = MoveDirection
        /\ pulses' > pulses =>
               /\ ENA_PIN = "LOW"
               /\ DIR_PIN = MoveDirection
               /\ currentPosition = moveFrom
        /\ currentPosition' # currentPosition =>
               /\ ENA_PIN = "LOW"
               /\ pulses = Abs(targetPosition - moveFrom)
               /\ currentPosition' = targetPosition
        /\ (ENA_PIN = "LOW" /\ ENA_PIN' = "HIGH") =>
               /\ currentPosition = targetPosition
               /\ pulses = Abs(targetPosition - moveFrom) ]_vars

\* a reverse move of 400 pulses has set the position, the driver is still
\* enabled
C20_Witness ==
    /\ spc = "disable"
    /\ ENA_PIN = "LOW"
    /\ DIR_PIN = "LOW"
    /\ moveFrom = 400
    /\ currentPosition = 0
    /\ pulses = 400

(***************************************************************************)
(* The position variable                                                   *)
(***************************************************************************)
TablePositions == {colorPositions[i].position : i \in 1..NUM_COLORS}

\* C21: currentPosition is written by moveToColor only, after the pulse
\* loop has emitted all pulses of the move, and is then the move's target;
\* so it always is the position of a table entry (0, 200, 400 or 600),
\* never a step count in between.
C21_PositionInTable ==
    [][ /\ currentPosition \in TablePositions
        /\ currentPosition' \in TablePositions
        /\ currentPosition' # currentPosition =>
               /\ spc = "step"
               /\ pulses = stepsToMove
               /\ pulses = Abs(targetPosition - moveFrom)
               /\ currentPosition' = targetPosition ]_vars

\* 300 pulses into the move from cyan to black the position still is 0
C21_Witness ==
    /\ spc = "step"
    /\ moveName = s_black
    /\ pulses = 300
    /\ currentPosition = 0

(***************************************************************************)
(* Bus traffic during a move                                               *)
(***************************************************************************)
\* moveToColor is between its decision to move and its return
InMove == spc \in {"enable", "dir", "step", "disable"}

\* receiveEvent has just run
Received == slaveSerial' = <<"Received: ">>

\* C22: a move, once started, is neither preempted nor cancelled by bus
\* traffic: a receiveEvent during the move leaves the move's target, its
\* remaining steps, the pulses emitted, the outputs and the position alone;
\* the move leaves its pulse loop only with all pulses emitted; and a move
\* during which bytes came in ends with all abs(delta) pulses emitted and
\* currentPosition at the original target, back in the loop.
C22_NotPreempted ==
    [][ /\ (InMove /\ Received) =>
               UNCHANGED <<spc, targetPosition, stepsToMove, stepIndex,
                           pulses, currentPosition, ENA_PIN, DIR_PIN,
                           moveName, moveFrom>>
        /\ (spc = "step" /\ spc' # "step") =>
               /\ spc' = "disable"
               /\ pulses = Abs(targetPosition - moveFrom)
        /\ (unread' = "move" /\ spc = "disable" /\ spc' # spc) =>
               /\ spc' = "clear"
               /\ targetPosition' = PositionOf(moveName')
               /\ pulses' = Abs(PositionOf(moveName') - moveFrom')
               /\ currentPosition' = PositionOf(moveName')
               /\ ENA_PIN' = "HIGH" ]_vars

\* the move to yellow is over, at 400 after 400 pulses, with a command for
\* cyan taken in on the way
C22_Witness ==
    /\ spc = "clear"
    /\ unread = "move"
    /\ moveName = s_yellow
    /\ receiveBuffer = ColorMsg(s_cyan)
    /\ pulses = 400
    /\ currentPosition = 400

(***************************************************************************)
(* Order of the two channels within one iteration                          *)
(***************************************************************************)
\* the steps of one iteration, in the order the loop body takes them
TickOrder ==
    { <<"tick", "serial">>, <<"serial", "serial_json">>, <<"serial", "wire">>,
      <<"serial_json", "wire">>, <<"wire", "wire_json">>,
      <<"wire", "delay">>, <<"wire_json", "delay">>, <<"delay", "tick">> }

\* the message names one of the four modes
NamesMode(json) == HasModeString(json) /\ ModeString(json) \in ModeNames

\* C23: one iteration runs the throttle tick, then the local ingest, then
\* the bus ingest, with at most one message waiting to be parsed; when the
\* local line and the bus payload of one iteration both name a mode, the
\* local one is applied first and the bus one last, so the applied Mode at
\* the end of the iteration is the one of the bus payload.
C23_LastWriteWins ==
    [][ /\ pc' # pc => <<pc, pc'>> \in TickOrder
        /\ pending' <= 1
        /\ (pc = "wire_json" /\ localJson # NoLocal /\ NamesMode(localJson)
              /\ NamesMode(JsonArg)) =>
               /\ mks_machine_mode = ModeConstant(ModeString(localJson))
               /\ mks_machine_mode' = ModeConstant(ModeString(JsonArg))
               /\ pc' = "delay"
        /\ (pc = "delay" /\ pc' = "tick") =>
               mks_machine_mode' = mks_machine_mode ]_vars

\* an iteration ends in spindle mode after the local line said laser and the
\* bus payload said spindle
C23_Witness ==
    /\ pc = "delay"
    /\ localJson = ModeMsg(s_laser)
    /\ parsed = "ok"
    /\ prevJson = ModeMsg(s_spindle)
    /\ mks_machine_mode = MODE_SPINDLE

(***************************************************************************)
(* The slave's exposed message                                             *)
(***************************************************************************)
\* the message names exactly this mode
Encodes(json, mode) ==
    /\ HasModeString(json)
    /\ ModeString(json) \in ModeNames
    /\ ModeConstant(ModeString(json)) = mode

\* C24: the slave encodes its exposed message again only in a loop iteration
\* whose sampled mode differs from the one sampled before (the buffer is
\* first encoded at startup); when the delay that ends an iteration is
\* over, the buffer encodes the current sensed mode and modeChanged is clear.
C24_EncodeOnChange ==
    [][ /\ jsonBuffer' # jsonBuffer => (spc = "update" /\ modeChanged)
        /\ (spc = "check" /\ spc' # spc) =>
               /\ currentMode' = sample(pins')
               /\ modeChanged' <=> (sample(pins') # currentMode)
        /\ (spc = "update" /\ spc' # spc) =>
               /\ (slaveSerial' = <<"Mode changed to: ">>) <=> modeChanged
               /\ modeChanged <=> ~Encodes(jsonBuffer, currentMode)
        /\ (spc = "sleep" /\ spc' # spc) =>
               /\ Encodes(jsonBuffer', currentMode')
               /\ currentMode' = sample(pins')
               /\ ~modeChanged' ]_vars

\* an iteration ends with the laser input high and the buffer saying laser
C24_Witness ==
    /\ spc = "sleep"
    /\ pins.spindle = "LOW"
    /\ pins.laser = "HIGH"
    /\ currentMode = MODE_LASER
    /\ jsonBuffer = ModeMsg(s_laser)
    /\ ~modeChanged

(***************************************************************************)
(* Convergence of the applied Mode                                         *)
(***************************************************************************)
\* the inputs keep their levels from here on, the slave's buffer is encoded,
\* and the relay has an iteration to come
Settled == ticks >= 1 /\ ticks < MaxPollTicks /\ ~modeChanged

\* the relay's applied Mode is the mode the slave senses
Agree == mks_machine_mode = sample(pins)

\* C25: once the slave's inputs stay as they are, with a silent local
\* channel and every poll answered, the relay's applied Mode becomes the
\* slave's sensed mode and stays equal to it.
C25_Converges == Settled ~> []Agree

\* the laser input went high and the relay is in laser mode two iterations
\* later
C25_Witness ==
    /\ ticks >= 2
    /\ pins.spindle = "LOW"
    /\ pins.laser = "HIGH"
    /\ ~modeChanged
    /\ pc = "delay"
    /\ mks_machine_mode = MODE_LASER

(***************************************************************************)
(* Distance between [JSON:...] lines                                       *)
(***************************************************************************)
\* a [JSON:...] line is written by this step, and one was written before
NextEmission == jsonLines' > jsonLines /\ emitLog # <<>>
\* milliseconds from the line before to the line this step writes
EmissionGap == emitLog'[Len(emitLog')] - emitLog[Len(emitLog)]

\* C26 as stated: any two consecutive [JSON:...] lines, of one window or of
\* two, are at least JSON_REPORT_INTERVAL apart.
C26_AnyTwoSpaced ==
    [][ NextEmission => EmissionGap >= JSON_REPORT_INTERVAL ]_vars

\* C26 amended: a [JSON:...] line written by the throttle tick (a repeat
\* within a window) comes at least JSON_REPORT_INTERVAL after the line
\* before it; a line written by an ingest is the first of a new window, the
\* relay having no window active, and comes at any distance from the line
\* before it, the same millisecond included.
C26_SpacedWithinWindow ==
    [][ NextEmission =>
            \/ /\ pc = "tick"
               /\ throttled_reporting_active
               /\ throttled_reporting_active'
               /\ EmissionGap >= JSON_REPORT_INTERVAL
            \/ /\ pc \in {"serial", "wire"}
               /\ ~throttled_reporting_active
               /\ throttled_reporting_active'
               /\ mode_change_time' = current_time
               /\ emitLog' = <<Elapsed>>
               /\ EmissionGap >= 0 ]_vars

\* in the first iteration the local line opened a window with a line at 0 ms
\* and changed the Mode to laser, which closed it; the bus payload of the
\* same iteration has just opened the next window with a second line at 0 ms
C26_Witness ==
    /\ ticks = 0
    /\ pc = "wire_json"
    /\ localJson = ModeMsg(s_laser)
    /\ mks_machine_mode = MODE_LASER
    /\ console # <<>>
    /\ emitLog = <<0>>
    /\ throttled_reporting_active

(***************************************************************************)
(* Which ingested messages reach the console                               *)
(***************************************************************************)
\* C27 as stated: every ingested message is written as [JSON:<payload>] at
\* least once, at ingest or by a later repeat: a stored message that no line
\* has carried yet stays in last_json_content, with the window active, until
\* a repeat carries it.
C27_EveryMessageEmitted ==
    [][ unreported =>
            /\ throttled_reporting_active'
            /\ last_json_content' = last_json_content ]_vars

\* C27 amended: a message ingested with no window active is written at once;
\* a message ingested with a window active is stored and written by no step
\* but a later repeat of that window, which writes whatever last_json_content
\* then holds; the message is never written when another one replaces it
\* first or the window ends first (a change of the applied Mode, its own
\* included, or the window's age).
C27_EmittedWhileStored ==
    [][ /\ (IngestStep /\ ~throttled_reporting_active) =>
               /\ console' = <<forward_json_to_console(JsonArg')>>
               /\ ~unreported'
        /\ (IngestStep /\ throttled_reporting_active) =>
               /\ console' = <<>>
               /\ last_json_content' = JsonArg'
               /\ unreported'
        /\ (unreported /\ ~IngestStep) =>
               /\ last_json_content' = last_json_content
               /\ ~unreported' =>
                      /\ pc = "tick"
                      /\ throttled_reporting_active
                      /\ console' =
                             <<forward_json_to_console(last_json_content)>>
        /\ (pc = "tick" /\ console' # <<>>) =>
               console' = <<forward_json_to_console(last_json_content)>> ]_vars

\* the spindle message came in with a window open, changed the applied Mode
\* and so ended the window: the iteration is over and no line has carried it
C27_Witness ==
    /\ pc = "delay"
    /\ unreported
    /\ ~throttled_reporting_active
    /\ last_json_content = ModeMsg(s_spindle)
    /\ mks_machine_mode = MODE_SPINDLE

(***************************************************************************)
(* What the slave stores of a transmitted command                          *)
(***************************************************************************)
\* send_json_to_arduino has just returned true and the slave's receiveEvent
\* has run on the bytes
Delivered == sent'.called /\ sent'.ret /\ Received

\* C28: every payload send_json_to_arduino accepts (1 to maxPayloadSize
\* bytes) and transmits with success is in the slave's receiveBuffer in full
\* and unmodified when receiveEvent has run.
C28_StoredInFull ==
    [][ Delivered => receiveBuffer' = sent'.json.str ]_vars

==========================================================================
